---- MODULE Spec2Model ----
(***************************************************************************)
(* node-http-proxy 0.4.2 (lib/node-http-proxy.js): one proxyRequest cycle  *)
(* of an HttpProxy instance, the event buffer returned by buffer(req), the *)
(* shadow forward of _forwardRequest, and the events the inbound request   *)
(* and the two outbound connections deliver to the handlers.               *)
(***************************************************************************)
EXTENDS Naturals, Sequences, FiniteSets, TLC

VARIABLES
  self,          \* the HttpProxy instance: proxyTable, options.forward, 'proxyError' listeners
  NODE_ENV,      \* process.env.NODE_ENV
  req,           \* inbound request: method, headers, its 'data'/'end' listeners
  res,           \* operations the engine issued on the inbound response, in order
  reverseProxy,  \* the primary outbound connection of the cycle
  forwardProxy,  \* the shadow outbound connection of the cycle
  buffer,        \* the object returned by buffer(req): its events array
  errState,      \* the error-state flag of the cycle
  crashed,       \* an 'error' event was emitted with no listener: uncaught exception
  notified,      \* the 'proxyError' notifications emitted, in order
  replayed,      \* the events each resume() re-emitted on req, one sequence per call
  call,          \* <<>> before proxyRequest is called, <<its arguments>> after
  wire,          \* what the inbound request and the backend have emitted so far
  shadow,        \* what the shadow connection has emitted so far
  twin,          \* <<c>>: the same cycle run beside this one with a shadow that
                 \* never fails; <<>> when the cycle runs alone
  server,        \* what createServer built: the closure of its request listener
  socket,        \* the inbound socket of the WebSocket session (self.sock)
  reverse_proxy, \* the backend socket of the session (request.socket, remote_socket)
  p,             \* the pool manager.getPool(port, server) returned
  session        \* the closure of one proxyWebSocketRequest call

vars == <<self, NODE_ENV, req, res, reverseProxy, forwardProxy, buffer, errState,
          crashed, notified, replayed, call, wire, shadow, twin, server,
          socket, reverse_proxy, p, session>>

tunnelVars == <<socket, reverse_proxy, p, session>>

\* The variables outside the request/response cycle.
others == <<server, socket, reverse_proxy, p, session>>

\* ---------------------------------------------------------------- bounds
MaxChunks == 2     \* chunks the inbound request body may carry
MaxData == 1       \* chunks the backend's response body may carry
MaxErrors == 2     \* 'error' events one outbound connection may emit
MaxSessions == 2   \* WebSocket sessions opened on one pool
MaxFrames == 1     \* frames each side of a relay may send
MaxSegments == 4   \* segments the first backend chunk of a handshake may have
MaxResumes == 2    \* resume() calls the consumer may make on the buffer itself

\* ---------------------------------------------------------------- values
Undefined == "undefined"

Methods == {"GET", "HEAD"}
ConnectionValues == {Undefined, "keep-alive"}
StatusCodes == {200, 304}
Location == [host |-> "backend", port |-> "8080"]
ExplicitTarget == [host |-> "localhost", port |-> "9000"]
Errors == {[code |-> "ECONNREFUSED"], [code |-> "ECONNRESET"]}

\* A JavaScript value used as a condition.
Truthy(v) == v # Undefined /\ v # ""

\* The n-th chunk of a body and the encoding its 'data' event carries.
ReqChunk(n) == IF n = 1 THEN "r1" ELSE IF n = 2 THEN "r2" ELSE "r3"
ReqEncoding(n) == IF n = 1 THEN "utf8" ELSE Undefined
BackendChunk(n) == IF n = 1 THEN "b1" ELSE IF n = 2 THEN "b2" ELSE "b3"

\* The state of one cycle as one value: what a handler reads and writes.
Ctx ==
  [self |-> self, NODE_ENV |-> NODE_ENV, req |-> req, res |-> res,
   reverseProxy |-> reverseProxy, forwardProxy |-> forwardProxy,
   buffer |-> buffer, errState |-> errState, crashed |-> crashed,
   notified |-> notified, replayed |-> replayed]

\* ---------------------------------------------------------------- inbound response
writeHead(c, statusCode, headers) ==
  [c EXCEPT !.res = Append(@, [op |-> "writeHead", statusCode |-> statusCode,
                               headers |-> headers])]

write(c, chunk) == [c EXCEPT !.res = Append(@, [op |-> "write", chunk |-> chunk])]

end(c) == [c EXCEPT !.res = Append(@, [op |-> "end"])]

\* ---------------------------------------------------------------- req listeners
\* req.on('data', ...) / req.on('end', ...) of proxyRequest (lines 382-396).
reqListener(c, type, data) ==
  IF c.errState THEN c
  ELSE IF type = "data"
       THEN [c EXCEPT !.reverseProxy.log = Append(@, [op |-> "write", chunk |-> data])]
       ELSE [c EXCEPT !.reverseProxy.log = Append(@, [op |-> "end"])]

\* req.on('data', ...) / req.on('end', ...) of _forwardRequest (lines 445-452).
forwardListener(c, type, data) ==
  IF type = "data"
  THEN [c EXCEPT !.forwardProxy.log = Append(@, [op |-> "write", chunk |-> data])]
  ELSE [c EXCEPT !.forwardProxy.log = Append(@, [op |-> "end"])]

\* onData / onEnd of buffer (lines 209-215): events.push([type, data, encoding]).
onBuffer(c, type, data, encoding) ==
  [c EXCEPT !.buffer.events = Append(@, <<type, data, encoding>>)]

callListener(c, l, type, data, encoding) ==
  CASE l = "buffer" -> onBuffer(c, type, data, encoding)
    [] l = "_forwardRequest" -> forwardListener(c, type, data)
    [] l = "proxyRequest" -> reqListener(c, type, data)

\* EventEmitter.emit on req: the listeners registered when the emit starts are
\* called in registration order.
RECURSIVE emitTo(_, _, _, _, _)
emitTo(c, ls, type, data, encoding) ==
  IF ls = <<>> THEN c
  ELSE emitTo(callListener(c, Head(ls), type, data, encoding), Tail(ls),
              type, data, encoding)

emit(c, type, data, encoding) == emitTo(c, c.req.listeners, type, data, encoding)

\* ---------------------------------------------------------------- buffer (lines 206-229)
RemoveListener(ls, l) == SelectSeq(ls, LAMBDA x: x # l)

\* HttpProxy.prototype.buffer: obj.on('data', onData); obj.on('end', onEnd).
bufferCreate(c) ==
  [c EXCEPT !.req.listeners = Append(@, "buffer"),
            !.buffer = [created |-> TRUE, events |-> <<>>]]

\* A faulty bufferEnd: the capture listeners stay registered.
bufferEndKeepsListeners(c) == c

\* buffer.end(): removeListener of onData and onEnd.
bufferEnd(c) == [c EXCEPT !.req.listeners = RemoveListener(@, "buffer")]

\* The loop of resume(): i from the given index to len - 1, len read once.
RECURSIVE replayFrom(_, _, _)
replayFrom(c, i, len) ==
  IF i > len THEN c
  ELSE LET ev == c.buffer.events[i]
           c1 == [c EXCEPT !.replayed[Len(c.replayed)] = Append(@, ev)]
       IN replayFrom(emit(c1, ev[1], ev[2], ev[3]), i + 1, len)

\* buffer.resume(): this.end(), then obj.emit.apply(obj, events[i]) for each i.
resume(c) ==
  LET c1 == bufferEnd(c)
      c2 == [c1 EXCEPT !.replayed = Append(@, <<>>)]
  IN replayFrom(c2, 1, Len(c2.buffer.events))

\* ---------------------------------------------------------------- _forwardRequest (lines 410-453)
\* opts.headers is req.headers itself, so forcing 'connection' writes req.headers.
_forwardRequest(c) ==
  [c EXCEPT !.req.headers.connection = "close",
            !.forwardProxy = [opened |-> TRUE, errorListener |-> TRUE, log |-> <<>>],
            !.req.listeners = Append(@, "_forwardRequest")]

\* forwardProxy emits 'error': the once-listener (line 442) ignores it and is gone.
emitForwardError(c) ==
  IF c.forwardProxy.errorListener
  THEN [c EXCEPT !.forwardProxy.errorListener = FALSE]
  ELSE [c EXCEPT !.crashed = TRUE]

\* ---------------------------------------------------------------- proxyError (lines 297-324)
JSONstringify(err) == "{\"code\":\"" \o err.code \o "\"}"

errorBody(c, err) ==
  IF c.NODE_ENV = "production" THEN "Internal Server Error"
  ELSE "An error has occurred: " \o JSONstringify(err)

\* A faulty proxyError: the 500 is written even when a consumer claimed the error.
proxyErrorIgnoresClaim(c, err) ==
  LET c1 == [c EXCEPT !.errState = TRUE,
                      !.notified = Append(@, [err |-> err, req |-> "req", res |-> "res"])]
      c2 == writeHead(c1, 500, [ContentType |-> "text/plain"])
      c3 == IF c.req.method # "HEAD" THEN write(c2, errorBody(c2, err)) ELSE c2
  IN end(c3)

proxyError(c, err) ==
  LET c1 == [c EXCEPT !.errState = TRUE,
                      !.notified = Append(@, [err |-> err, req |-> "req", res |-> "res"])]
      c2 == writeHead(c1, 500, [ContentType |-> "text/plain"])
      c3 == IF c.req.method # "HEAD" THEN write(c2, errorBody(c2, err)) ELSE c2
  IN IF c.self.proxyErrorListeners THEN c1 ELSE end(c3)

\* reverseProxy emits 'error': proxyError is registered with once (line 378).
emitError(c, err) ==
  IF c.reverseProxy.errorListener
  THEN proxyError([c EXCEPT !.reverseProxy.errorListener = FALSE], err)
  ELSE [c EXCEPT !.crashed = TRUE]

\* ---------------------------------------------------------------- response callback (lines 340-375)
mirroredConnection(c, headers) ==
  IF Truthy(headers.connection)
  THEN IF Truthy(c.req.headers.connection) THEN c.req.headers.connection ELSE "close"
  ELSE headers.connection

\* A faulty onResponse: a 304 is handled like any other status.
onResponseNo304(c, statusCode, headers) ==
  LET h == [headers EXCEPT !.connection = mirroredConnection(c, headers)]
  IN [writeHead(c, statusCode, h) EXCEPT !.reverseProxy.responseListeners = TRUE]

onResponse(c, statusCode, headers) ==
  LET h == [headers EXCEPT !.connection = mirroredConnection(c, headers)]
      c1 == writeHead(c, statusCode, h)
  IN IF statusCode = 304 THEN end(c1)
     ELSE [c1 EXCEPT !.reverseProxy.responseListeners = TRUE]

\* A faulty onResponseData: the method is not looked at.
onResponseDataAnyMethod(c, chunk) == write(c, chunk)

\* response.on('data', ...) (lines 358-362).
onResponseData(c, chunk) == IF c.req.method # "HEAD" THEN write(c, chunk) ELSE c

\* response.on('end', ...) (lines 369-374).
onResponseEnd(c) ==
  IF ~c.errState THEN end([c EXCEPT !.reverseProxy.errorListener = FALSE]) ELSE c

emitResponseData(c, chunk) ==
  IF c.reverseProxy.responseListeners THEN onResponseData(c, chunk) ELSE c

emitResponseEnd(c) ==
  IF c.reverseProxy.responseListeners THEN onResponseEnd(c) ELSE c

\* ---------------------------------------------------------------- proxyRequest (lines 248-402)
\* Line 258: the table's answer for this request, <<>> for none.
getProxyLocation(c) == c.self.location

\* A faulty routeMiss: the 404 carries a body.
routeMissWithBody(c) == end(write(writeHead(c, 404, Undefined), "Not Found"))

\* Lines 265-266: no location for the request.
routeMiss(c) == end(writeHead(c, 404, Undefined))

\* A faulty forwardIfEnabled: the shadow is skipped when a table routes the request.
forwardUnlessRouted(c) ==
  IF c.self.forward /\ ~c.self.proxyTable THEN _forwardRequest(c) ELSE c

\* Lines 286-289.
forwardIfEnabled(c) == IF c.self.forward THEN _forwardRequest(c) ELSE c

\* Lines 326-396: opts, http.request, once('error'), req.on('data'), req.on('end').
openReverseProxy(c, port, host) ==
  [c EXCEPT !.req.headers.connection = "close",
            !.reverseProxy = [opened |-> TRUE, host |-> host, port |-> port,
                              method |-> c.req.method,
                              connection |-> "close",
                              errorListener |-> TRUE, responseListeners |-> FALSE,
                              log |-> <<>>],
            !.req.listeners = Append(@, "proxyRequest")]

\* Lines 399-401.
resumeIfBuffered(c, buf) == IF Truthy(buf) /\ ~c.errState THEN resume(c) ELSE c

\* A faulty proxyRequest: the table is asked whenever it is configured.
proxyRequestTableFirst(c, port, host, buf) ==
  IF c.self.proxyTable
  THEN LET q == [c EXCEPT !.self.queried = TRUE]
       IN IF getProxyLocation(q) = <<>> THEN routeMiss(q)
          ELSE resumeIfBuffered(
                 openReverseProxy(forwardIfEnabled(q), getProxyLocation(q)[1].port,
                                  getProxyLocation(q)[1].host),
                 port)
  ELSE resumeIfBuffered(openReverseProxy(forwardIfEnabled(c), port, host), buf)

\* queried records that line 258 asked the table.
proxyRequest(c, port, host, buf) ==
  IF c.self.proxyTable /\ ~Truthy(host)
  THEN LET q == [c EXCEPT !.self.queried = TRUE]
       IN IF getProxyLocation(q) = <<>> THEN routeMiss(q)
          ELSE resumeIfBuffered(
                 openReverseProxy(forwardIfEnabled(q), getProxyLocation(q)[1].port,
                                  getProxyLocation(q)[1].host),
                 port)
  ELSE resumeIfBuffered(openReverseProxy(forwardIfEnabled(c), port, host), buf)

\* ---------------------------------------------------------------- the process
\* The handler each event of the cycle runs.
handle(c, ev) ==
  CASE ev.name = "buffer" -> bufferCreate(c)
    [] ev.name = "resume" -> resume(c)
    [] ev.name = "proxyRequest" -> proxyRequest(c, ev.port, ev.host, ev.buffer)
    [] ev.name = "req data" -> emit(c, "data", ev.data, ev.encoding)
    [] ev.name = "req end" -> emit(c, "end", Undefined, Undefined)
    [] ev.name = "response" -> onResponse(c, ev.statusCode, ev.headers)
    [] ev.name = "response data" -> emitResponseData(c, ev.chunk)
    [] ev.name = "response end" -> emitResponseEnd(c)
    [] ev.name = "error" -> emitError(c, ev.err)
    [] ev.name = "forward error" -> emitForwardError(c)
    [] ev.name = "forward response" -> c

\* A handler runs only while the process is alive.
Deliver(c, ev) == IF c.crashed THEN c ELSE handle(c, ev)

Apply(c) ==
  /\ self' = c.self
  /\ NODE_ENV' = c.NODE_ENV
  /\ req' = c.req
  /\ res' = c.res
  /\ reverseProxy' = c.reverseProxy
  /\ forwardProxy' = c.forwardProxy
  /\ buffer' = c.buffer
  /\ errState' = c.errState
  /\ crashed' = c.crashed
  /\ notified' = c.notified
  /\ replayed' = c.replayed

\* An event of the inbound request or of the primary backend reaches both runs.
Both(ev) ==
  /\ Apply(Deliver(Ctx, ev))
  /\ twin' = IF twin = <<>> THEN twin ELSE <<Deliver(twin[1], ev)>>
  /\ UNCHANGED others

\* An event of the shadow connection reaches this run only.
Alone(ev) ==
  /\ Apply(Deliver(Ctx, ev))
  /\ twin' = twin
  /\ UNCHANGED others

Alive == ~crashed \/ (twin # <<>> /\ ~twin[1].crashed)

\* ---------------------------------------------------------------- initial states
Configs ==
  { s \in [proxyTable : BOOLEAN, location : {<<>>, <<Location>>},
           forward : BOOLEAN, proxyErrorListeners : BOOLEAN, queried : {FALSE}] :
      ~s.proxyTable => s.location = <<>> }

Requests ==
  [method : Methods,
   headers : [connection : ConnectionValues, host : {"example.com"}],
   listeners : {<<>>}]

InitCycle ==
  /\ self \in Configs
  /\ NODE_ENV \in {"production", "development"}
  /\ req \in Requests
  /\ res = <<>>
  /\ reverseProxy = [opened |-> FALSE]
  /\ forwardProxy = [opened |-> FALSE]
  /\ buffer = [created |-> FALSE, events |-> <<>>]
  /\ errState = FALSE
  /\ crashed = FALSE
  /\ notified = <<>>
  /\ replayed = <<>>
  /\ call = <<>>
  /\ wire = [connection |-> req.headers.connection, reqChunks |-> 0,
             reqEnded |-> FALSE, bufferedAt |-> 0, response |-> <<>>,
             nData |-> 0, ended |-> FALSE, nErr |-> 0, resumesAtCall |-> 0]
  /\ shadow = [nErr |-> 0, responded |-> FALSE]

\* ---------------------------------------------------------------- createServer (lines 87-147)
NoServer == [created |-> FALSE, error |-> "", callback |-> FALSE,
             port |-> Undefined, host |-> Undefined, handled |-> <<>>]

\* An options object; {} has no router and no forward target.
Options ==
  { o \in [router : BOOLEAN, routes : {<<>>, <<Location>>}, forward : BOOLEAN] :
      ~o.router => o.routes = <<>> }

NoOptions == [router |-> FALSE, routes |-> <<>>, forward |-> FALSE]

\* The arguments of a createServer call: length counts the arguments other
\* than a trailing function; port and host are args[0], args[1] of the two-
\* and three-argument forms, options is args[0] of the one-argument form and
\* args[2] of the three-argument form (<<>> when undefined or absent).
Arguments ==
  { a \in [length : 0..3, port : {Undefined, ExplicitTarget.port},
           host : {Undefined, ExplicitTarget.host},
           options : {<<>>} \cup {<<o>> : o \in Options}, callback : BOOLEAN] :
      /\ a.length < 2 => a.port = Undefined /\ a.host = Undefined
      /\ a.length \in {0, 2} => a.options = <<>> }

\* args[i] || {}
OrEmpty(options) == IF options = <<>> THEN NoOptions ELSE options[1]

\* new HttpProxy(options)
HttpProxy(options) ==
  [proxyTable |-> options.router, location |-> options.routes,
   forward |-> options.forward, proxyErrorListeners |-> FALSE, queried |-> FALSE]

\* The result of createServer(args): the server, or the error it threw.
createServer(a) ==
  IF a.length = 1 /\ ~OrEmpty(a.options).router /\ ~a.callback
  THEN [server |-> [NoServer EXCEPT
                      !.error = "Cannot create server with no router and no callback"],
        proxy |-> <<>>]
  ELSE [server |-> [created |-> TRUE, error |-> "", callback |-> a.callback,
                    port |-> IF a.length >= 2 THEN a.port ELSE Undefined,
                    host |-> IF a.length >= 2 THEN a.host ELSE Undefined,
                    handled |-> <<>>],
        proxy |-> <<HttpProxy(OrEmpty(a.options))>>]

\* The branch the request listener of the server takes (lines 111-126).
dispatch(s, proxy) ==
  IF s.callback THEN "callback"
  ELSE IF Truthy(s.port) /\ Truthy(s.host) THEN "target"
  ELSE IF proxy.proxyTable THEN "table"
  ELSE "Cannot proxy without port, host, or router."

\* The request listener of the server, run on one inbound request.
requestListener(c, s) ==
  CASE dispatch(s, c.self) = "callback" -> c
    [] dispatch(s, c.self) = "target" ->
         proxyRequest(c, s.port, s.host, Undefined)
    [] dispatch(s, c.self) = "table" ->
         proxyRequest(c, Undefined, Undefined, Undefined)
    [] OTHER -> [c EXCEPT !.crashed = TRUE]

\* ---------------------------------------------------------------- WebSocket tunnel (lines 455-642)
\* Text and buffers are sequences of tokens; a token is one byte in a buffer.
CRLFCRLF == "\r\n\r\n"
Junk == "0xFF"          \* a byte that is not valid UTF-8
Replacement == "U+FFFD" \* the character toString() decodes such a byte to

Servers == {"backend"}
Ports == {"80", "1234"}
InboundHosts == {<<"example.com">>, <<"ws.", "backend">>}

\* server + (port - 80 === 0 ? '' : ':' + port)
remoteHost(serverName, port) ==
  IF port = "80" THEN <<serverName>> ELSE <<serverName, ":", port>>

\* data.toString()
toString(data) ==
  [i \in 1..Len(data) |-> IF data[i] = Junk THEN Replacement ELSE data[i]]

\* Buffer.byteLength(str): the replacement character takes three bytes.
RECURSIVE byteLength(_)
byteLength(str) ==
  IF str = <<>> THEN 0
  ELSE (IF Head(str) = Replacement THEN 3 ELSE 1) + byteLength(Tail(str))

\* str.search(pattern): the zero-based index of the first match, -1 as 0 - 1
\* is not a natural number, so the result is shifted by one: 0 when absent.
IndexOf(str, pat) ==
  LET hits == { i \in 1..(Len(str) + 1 - Len(pat)) :
                  SubSeq(str, i, i + Len(pat) - 1) = pat }
  IN IF Len(pat) > Len(str) \/ hits = {} THEN 0
     ELSE CHOOSE i \in hits : \A j \in hits : i <= j

\* str.substr(0, str.search(CRLF + CRLF)): empty when the search returns -1.
printable(str) ==
  IF IndexOf(str, <<CRLFCRLF>>) = 0 THEN <<>>
  ELSE SubSeq(str, 1, IndexOf(str, <<CRLFCRLF>>) - 1)

\* data.slice(start, data.length)
slice(data, start) ==
  IF start >= Len(data) THEN <<>> ELSE SubSeq(data, start + 1, Len(data))

\* str.replace(pat, by) with a string pattern: the first occurrence only.
replace(str, pat, by) ==
  IF IndexOf(str, pat) = 0 THEN str
  ELSE SubSeq(str, 1, IndexOf(str, pat) - 1) \o by
         \o SubSeq(str, IndexOf(str, pat) + Len(pat), Len(str))

\* A socket: writable flag, the calls made on it, its listeners.
FreshSocket == [writable |-> TRUE, log |-> <<>>, listeners |-> {}]

\* socket.write(data) throws when the socket is not writable.
sockWrite(s, data) ==
  [s EXCEPT !.log = Append(@, [op |-> "write", chunk |-> data, threw |-> ~s.writable])]

sockEnd(s) == [s EXCEPT !.log = Append(@, [op |-> "end"]), !.writable = FALSE]

Tun == [socket |-> socket, reverse_proxy |-> reverse_proxy, p |-> p, session |-> session]

NoSession ==
  [n |-> 0, open |-> FALSE, client |-> 0, host |-> <<>>, remote_host |-> <<>>,
   errorListener |-> FALSE, upgraded |-> FALSE, request |-> <<>>, done |-> TRUE,
   bData |-> 0, cData |-> 0, bEnded |-> FALSE, cEnded |-> FALSE, teardown |-> <<>>,
   first |-> <<>>]

\* p.getClient(cb): the first client that is not busy, else a new client
\* that is added to p.clients.
getClient(pool) ==
  LET free == { i \in 1..Len(pool.clients) : pool.clients[i] \notin pool.busy }
  IN IF free # {}
     THEN [client |-> pool.clients[CHOOSE i \in free : \A j \in free : i <= j],
           pool |-> pool]
     ELSE [client |-> pool.made + 1,
           pool |-> [pool EXCEPT !.made = @ + 1, !.clients = Append(@, pool.made + 1)]]

\* p.onFree(client)
onFree(pool, client) == pool

\* array.indexOf(x): shifted by one, 0 when absent.
indexOf(array, x) ==
  IF \E i \in 1..Len(array) : array[i] = x
  THEN CHOOSE i \in 1..Len(array) : array[i] = x /\ \A j \in 1..(i - 1) : array[j] # x
  ELSE 0

\* array.splice(start, 1) with start = indexOf(...): -1 removes the last element.
splice(array, at) ==
  IF array = <<>> THEN array
  ELSE IF at = 0 THEN SubSeq(array, 1, Len(array) - 1)
  ELSE SubSeq(array, 1, at - 1) \o SubSeq(array, at + 1, Len(array))

\* A faulty errorListener: the client stays in the pool.
errorListenerKeepsClient(t) ==
  [t EXCEPT !.session.errorListener = FALSE,
            !.session.done = TRUE,
            !.p.errored = @ \cup {t.session.client},
            !.socket = sockEnd(@)]

\* errorListener (lines 512-518)
errorListener(t) ==
  [t EXCEPT !.session.errorListener = FALSE,
            !.session.done = TRUE,
            !.p.errored = @ \cup {t.session.client},
            !.p.clients = splice(@, indexOf(@, t.session.client)),
            !.socket = sockEnd(@)]

\* response.on('end') of the upgrade request (lines 531-535)
onRequestResponseEnd(t) ==
  [t EXCEPT !.session.errorListener = FALSE,
            !.session.done = TRUE,
            !.p.busy = @ \ {t.session.client},
            !.p = onFree(@, t.session.client)]

\* headers.upgrade.toLowerCase()
toLowerCase(str) == IF str = "WebSocket" THEN "websocket" ELSE str

\* proxyWebSocketRequest with the callback of p.getClient (lines 508-591):
\* listeners, busy mark, the handshake listener, the write of the upgrade head.
proxyWebSocketRequest(t, method, upgrade, port, serverName, host) ==
  IF method # "GET" \/ toLowerCase(upgrade) # "websocket"
  THEN [t EXCEPT !.session = [NoSession EXCEPT !.n = t.session.n + 1],
                 !.socket = FreshSocket, !.reverse_proxy = FreshSocket]
  ELSE [t EXCEPT
          !.p = [getClient(t.p).pool EXCEPT !.busy = @ \cup {getClient(t.p).client}],
          !.socket = FreshSocket,
          !.reverse_proxy = [FreshSocket EXCEPT !.listeners = {"data:handshake"}],
          !.session = [NoSession EXCEPT
                         !.n = t.session.n + 1, !.open = TRUE, !.done = FALSE,
                         !.client = getClient(t.p).client,
                         !.host = host, !.remote_host = remoteHost(serverName, port),
                         !.errorListener = TRUE,
                         !.request = <<[op |-> "write", chunk |-> "head"]>>]]

\* handshake (lines 540-579)
handshake(t, data) ==
  LET sdata == printable(toString(data))
      rest == slice(data, byteLength(sdata))
      rewritten == replace(replace(sdata, t.session.remote_host, t.session.host),
                           t.session.remote_host, t.session.host)
      written == sockWrite(sockWrite(t.socket, rewritten), rest)
  IN [t EXCEPT
        !.socket = [(IF t.socket.writable THEN written
                     ELSE sockEnd(sockWrite(t.socket, rewritten)))
                    EXCEPT !.listeners = @ \cup {"error:handshake"}],
        !.session.request = IF t.socket.writable THEN @
                            ELSE Append(@, [op |-> "end"]),
        !.reverse_proxy.listeners = @ \ {"data:handshake"}]

\* listeners._r_data (lines 599-610)
_r_data(t, data) ==
  IF t.socket.writable
  THEN [t EXCEPT !.socket = sockWrite(@, data)]
  ELSE t

\* listeners._data (lines 612-621)
_data(t, data) ==
  IF t.reverse_proxy.writable
  THEN [t EXCEPT !.reverse_proxy = sockWrite(@, data)]
  ELSE [t EXCEPT !.reverse_proxy = sockEnd(sockWrite(@, data)),
                 !.socket = sockEnd(@)]

\* detach (lines 624-629): the listeners named are removed from 'close' and 'data'.
detach(t) ==
  [t EXCEPT !.reverse_proxy.listeners = @ \ {"close:_r_close", "data:_r_data"},
            !.socket.listeners = @ \ {"data:_data", "close:_close"}]

\* listeners._r_close (lines 632-635)
_r_close(t) == detach([t EXCEPT !.socket = sockEnd(@)])

\* listeners._close (lines 637-640)
_close(t) == detach([t EXCEPT !.reverse_proxy = sockEnd(@)])

\* onUpgrade (lines 595-641)
onUpgrade(t) ==
  [t EXCEPT !.session.upgraded = TRUE,
            !.reverse_proxy.listeners = @ \cup {"data:_r_data", "end:_r_close"},
            !.socket.listeners = @ \cup {"data:_data", "end:_close"}]

\* reverse_proxy.emit('data', data): listeners in registration order.
emitBackendData(t, data) ==
  LET h == IF "data:handshake" \in t.reverse_proxy.listeners THEN handshake(t, data) ELSE t
  IN IF "data:_r_data" \in t.reverse_proxy.listeners THEN _r_data(h, data) ELSE h

emitClientData(t, data) ==
  IF "data:_data" \in t.socket.listeners THEN _data(t, data) ELSE t

emitBackendEnd(t) ==
  IF "end:_r_close" \in t.reverse_proxy.listeners THEN _r_close(t) ELSE t

emitClientEnd(t) ==
  IF "end:_close" \in t.socket.listeners THEN _close(t) ELSE t

\* The relay listeners a socket still has.
RelayListeners(s) ==
  s.listeners \cap {"data:_r_data", "end:_r_close", "data:_data", "end:_close"}

\* Remembers the calls made on both sockets by the end of the first teardown.
markTeardown(t) ==
  IF t.session.teardown # <<>> \/ ~t.session.upgraded THEN t
  ELSE [t EXCEPT !.session.teardown =
          <<[socket |-> Len(t.socket.log), reverse_proxy |-> Len(t.reverse_proxy.log)]>>]

ApplyTun(t) ==
  /\ socket' = t.socket
  /\ reverse_proxy' = t.reverse_proxy
  /\ p' = t.p
  /\ session' = t.session

cycleVars == <<self, NODE_ENV, req, res, reverseProxy, forwardProxy, buffer, errState,
               crashed, notified, replayed, call, wire, shadow, twin, server>>

EmptyPool == [clients |-> <<>>, busy |-> {}, made |-> 0, errored |-> {}]

\* The pool of a backend: new, or holding a client that another session keeps busy.
Pools == {EmptyPool, [clients |-> <<1>>, busy |-> {1}, made |-> 1, errored |-> {}]}

InitTunnelVars ==
  /\ socket = FreshSocket
  /\ reverse_proxy = FreshSocket
  /\ p = EmptyPool
  /\ session = NoSession

Init == InitCycle /\ twin = <<>> /\ server = NoServer /\ InitTunnelVars

InitTwin == InitCycle /\ twin = <<Ctx>> /\ server = NoServer /\ InitTunnelVars

\* One idle proxy, for the sessions of the WebSocket tunnel.
InitTunnel ==
  /\ InitCycle /\ twin = <<>> /\ server = NoServer
  /\ self = HttpProxy(NoOptions) /\ NODE_ENV = "production"
  /\ req.method = "GET" /\ req.headers.connection = Undefined
  /\ socket = FreshSocket
  /\ reverse_proxy = FreshSocket
  /\ p \in Pools
  /\ session = NoSession

\* ---------------------------------------------------------------- actions
\* The events the inbound request has emitted so far, in order.
Emitted ==
  [i \in 1..wire.reqChunks |-> <<"data", ReqChunk(i), ReqEncoding(i)>>]
    \o (IF wire.reqEnded THEN << <<"end", Undefined, Undefined>> >> ELSE <<>>)

\* The consumer calls proxy.buffer(req) before its asynchronous work.
Buffer ==
  /\ call = <<>> /\ ~buffer.created /\ Alive
  /\ Both([name |-> "buffer"])
  /\ wire' = [wire EXCEPT !.bufferedAt = Len(Emitted)]
  /\ UNCHANGED <<call, shadow>>

\* The inbound request emits 'data'.
ReqData ==
  /\ wire.reqChunks < MaxChunks /\ ~wire.reqEnded /\ Alive
  /\ LET n == wire.reqChunks + 1
     IN /\ Both([name |-> "req data", data |-> ReqChunk(n), encoding |-> ReqEncoding(n)])
        /\ wire' = [wire EXCEPT !.reqChunks = n]
  /\ UNCHANGED <<call, shadow>>

\* The inbound request emits 'end'.
ReqEnd ==
  /\ ~wire.reqEnded /\ Alive
  /\ Both([name |-> "req end"])
  /\ wire' = [wire EXCEPT !.reqEnded = TRUE]
  /\ UNCHANGED <<call, shadow>>

\* The consumer calls buffer.resume() itself.
BufferResume ==
  /\ buffer.created /\ Len(replayed) < MaxResumes /\ Alive
  /\ Both([name |-> "resume"])
  /\ UNCHANGED <<call, wire, shadow>>

\* The call shapes of proxyRequest(req, res, port, host, buffer).
CallShapes ==
  { a \in [port : {Undefined, ExplicitTarget.port, "buffer"},
           host : {Undefined, ExplicitTarget.host},
           buffer : {Undefined, "buffer"}] :
      /\ (a.host # Undefined) <=> (a.port = ExplicitTarget.port)
      /\ (a.host = Undefined) => a.buffer = Undefined
      /\ ("buffer" \in {a.port, a.buffer}) => buffer.created
      /\ (a.host = Undefined) => self.proxyTable }

ProxyRequest ==
  /\ call = <<>> /\ Alive
  /\ \E a \in CallShapes :
       /\ Both([name |-> "proxyRequest", port |-> a.port, host |-> a.host,
                buffer |-> a.buffer])
       /\ call' = <<a>>
  /\ wire' = [wire EXCEPT !.resumesAtCall = Len(replayed)]
  /\ UNCHANGED shadow

\* The backend's response arrives: the callback of http.request.
Response ==
  /\ reverseProxy.opened /\ wire.response = <<>> /\ Alive
  /\ \E statusCode \in StatusCodes, connection \in {Undefined, "keep-alive"} :
       LET headers == [connection |-> connection, server |-> "backend/1.0"]
       IN /\ Both([name |-> "response", statusCode |-> statusCode, headers |-> headers])
          /\ wire' = [wire EXCEPT !.response =
                        <<[statusCode |-> statusCode, headers |-> headers]>>]
  /\ UNCHANGED <<call, shadow>>

ResponseData ==
  /\ wire.response # <<>> /\ ~wire.ended /\ wire.nData < MaxData /\ Alive
  /\ Both([name |-> "response data", chunk |-> BackendChunk(wire.nData + 1)])
  /\ wire' = [wire EXCEPT !.nData = @ + 1]
  /\ UNCHANGED <<call, shadow>>

ResponseEnd ==
  /\ wire.response # <<>> /\ ~wire.ended /\ Alive
  /\ Both([name |-> "response end"])
  /\ wire' = [wire EXCEPT !.ended = TRUE]
  /\ UNCHANGED <<call, shadow>>

\* The primary outbound connection emits 'error'.
ReverseProxyError ==
  /\ reverseProxy.opened /\ wire.nErr < MaxErrors /\ Alive
  /\ \E err \in Errors : Both([name |-> "error", err |-> err])
  /\ wire' = [wire EXCEPT !.nErr = @ + 1]
  /\ UNCHANGED <<call, shadow>>

\* The shadow connection emits 'error'.
ForwardError ==
  /\ forwardProxy.opened /\ shadow.nErr < MaxErrors /\ ~crashed
  /\ Alone([name |-> "forward error"])
  /\ shadow' = [shadow EXCEPT !.nErr = @ + 1]
  /\ UNCHANGED <<call, wire>>

\* The shadow target answers: the callback of line 430 does nothing.
ForwardResponse ==
  /\ forwardProxy.opened /\ ~shadow.responded /\ ~crashed
  /\ Alone([name |-> "forward response"])
  /\ shadow' = [shadow EXCEPT !.responded = TRUE]
  /\ UNCHANGED <<call, wire>>

\* httpProxy.createServer(...) is called with some argument shape.
CreateServer ==
  /\ ~server.created /\ server.error = "" /\ call = <<>>
  /\ \E a \in Arguments :
       /\ server' = createServer(a).server
       /\ self' = IF createServer(a).proxy = <<>> THEN self
                  ELSE createServer(a).proxy[1]
  /\ UNCHANGED <<NODE_ENV, req, res, reverseProxy, forwardProxy, buffer, errState,
                 crashed, notified, replayed, call, wire, shadow, twin>>
  /\ UNCHANGED tunnelVars

\* The server receives an inbound request and runs its request listener.
ServerRequest ==
  /\ server.created /\ server.handled = <<>> /\ ~crashed
  /\ Apply(requestListener(Ctx, server))
  /\ server' = [server EXCEPT !.handled = Append(@, dispatch(server, self))]
  /\ call' = IF dispatch(server, self) = "target"
               THEN <<[port |-> server.port, host |-> server.host, buffer |-> Undefined]>>
             ELSE IF dispatch(server, self) = "table"
               THEN <<[port |-> Undefined, host |-> Undefined, buffer |-> Undefined]>>
             ELSE call
  /\ UNCHANGED <<wire, shadow, twin>>
  /\ UNCHANGED tunnelVars

\* ---------------------------------------------------------------- WebSocket actions
\* The segments a backend chunk is made of.
Segments(rh) == {rh, <<"x">>, <<CRLFCRLF>>, <<Junk>>}

RECURSIVE Flatten(_)
Flatten(segs) == IF segs = <<>> THEN <<>> ELSE Head(segs) \o Flatten(Tail(segs))

Chunks(rh) ==
  { Flatten(segs) : segs \in UNION { [1..n -> Segments(rh)] : n \in 1..MaxSegments } }

Frames == {<<"x">>}

\* proxy.proxyWebSocketRequest(port, server, host) on a new inbound upgrade.
ProxyWebSocketRequest ==
  /\ session.n < MaxSessions /\ session.done
  /\ \E method \in {"GET", "POST"}, upgrade \in {"WebSocket", "h2c"},
        port \in Ports, serverName \in Servers, host \in InboundHosts :
       ApplyTun(proxyWebSocketRequest(Tun, method, upgrade, port, serverName, host))
  /\ UNCHANGED cycleVars

\* The first bytes of the backend arrive: request.socket emits 'data'.
HandshakeChunk ==
  /\ session.open /\ session.bData = 0 /\ ~session.bEnded
  /\ \E data \in Chunks(session.remote_host) :
       ApplyTun([emitBackendData(Tun, data) EXCEPT
                   !.session.bData = @ + 1,
                   !.session.first = IF session.bData = 0 THEN <<data>> ELSE @])
  /\ UNCHANGED cycleVars

\* The backend socket emits 'data'.
BackendData ==
  /\ session.open /\ session.bData < MaxFrames + 1 /\ ~session.bEnded
  /\ \E data \in Frames :
       ApplyTun([emitBackendData(Tun, data) EXCEPT
                   !.session.bData = @ + 1,
                   !.session.first = IF session.bData = 0 THEN <<data>> ELSE @])
  /\ UNCHANGED cycleVars

\* The client emits 'upgrade': its parser has read the backend's first bytes,
\* which the 'data' listeners of the socket were given before.
Upgrade ==
  /\ session.open /\ ~session.upgraded /\ ~session.bEnded /\ session.bData > 0
  /\ ApplyTun(onUpgrade(Tun))
  /\ UNCHANGED cycleVars

\* The inbound socket emits 'data'.
ClientData ==
  /\ session.open /\ session.cData < MaxFrames /\ ~session.cEnded
  /\ \E data \in Frames :
       ApplyTun([emitClientData(Tun, data) EXCEPT !.session.cData = @ + 1])
  /\ UNCHANGED cycleVars

\* The backend socket emits 'end'.
BackendEnd ==
  /\ session.open /\ ~session.bEnded
  /\ ApplyTun([markTeardown(emitBackendEnd(Tun)) EXCEPT !.session.bEnded = TRUE])
  /\ UNCHANGED cycleVars

\* The inbound socket emits 'end'.
ClientEnd ==
  /\ session.open /\ ~session.cEnded
  /\ ApplyTun([markTeardown(emitClientEnd(Tun)) EXCEPT !.session.cEnded = TRUE])
  /\ UNCHANGED cycleVars

\* The backend socket is closed under the proxy and stops being writable.
BackendClosed ==
  /\ session.open /\ reverse_proxy.writable
  /\ ApplyTun([Tun EXCEPT !.reverse_proxy.writable = FALSE])
  /\ UNCHANGED cycleVars

\* The inbound socket is closed under the proxy and stops being writable.
ClientClosed ==
  /\ session.open /\ socket.writable
  /\ ApplyTun([Tun EXCEPT !.socket.writable = FALSE])
  /\ UNCHANGED cycleVars

\* The pooled client emits 'error' while its listener is attached.
ClientError ==
  /\ session.open /\ session.errorListener
  /\ ApplyTun(errorListener(Tun))
  /\ UNCHANGED cycleVars

\* The response of the upgrade request ends.
RequestResponseEnd ==
  /\ session.open /\ session.errorListener
  /\ ApplyTun(onRequestResponseEnd(Tun))
  /\ UNCHANGED cycleVars

Next ==
  \/ ReqData
  \/ ReqEnd
  \/ ProxyRequest
  \/ Response
  \/ ResponseData
  \/ ResponseEnd
  \/ ReverseProxyError
  \/ ForwardError
  \/ ForwardResponse

Spec == Init /\ [][Next]_vars

\* The backend of the cycle answers: once its response can arrive it does, and
\* a response that has arrived ends.
Fairness == WF_vars(Response) /\ WF_vars(ResponseEnd)

SpecLive == Init /\ [][Next]_vars /\ Fairness

\* The event buffer in front of a cycle whose backend stays silent.
NextBuffer ==
  \/ Buffer
  \/ ReqData
  \/ ReqEnd
  \/ BufferResume
  \/ ProxyRequest

SpecBuffer == Init /\ [][NextBuffer]_vars

\* A server built by createServer and the cycle of the request it receives.
NextServer ==
  \/ CreateServer
  \/ ServerRequest
  \/ ReqData
  \/ ReqEnd
  \/ Response
  \/ ResponseEnd

SpecServer == Init /\ [][NextServer]_vars

\* WebSocket sessions: acquire, upgrade, relay, teardown, eviction.
NextTunnel ==
  \/ ProxyWebSocketRequest
  \/ BackendData
  \/ Upgrade
  \/ ClientData
  \/ BackendEnd
  \/ ClientEnd
  \/ BackendClosed
  \/ ClientClosed
  \/ ClientError
  \/ RequestResponseEnd

SpecTunnel == InitTunnel /\ [][NextTunnel]_vars

\* The handshake of a WebSocket session, over the shapes of its first chunk.
NextHandshake ==
  \/ ProxyWebSocketRequest
  \/ HandshakeChunk
  \/ BackendData
  \/ Upgrade
  \/ ClientClosed

SpecHandshake == InitTunnel /\ [][NextHandshake]_vars

\* The cycle and its twin, fed the same request and the same backend events.
SpecTwin == InitTwin /\ [][Next]_vars

\* ================================================================ claims
Ops(log, op) == {i \in 1..Len(log) : log[i].op = op}

\* proxyRequest was called with no explicit host, the table is configured and it
\* has no location for the request.
RouteMissed ==
  /\ call # <<>>
  /\ call[1].host = Undefined
  /\ self.proxyTable
  /\ self.location = <<>>

\* C1: in every cycle, whatever the order of the backend's response, data, end
\* and error events, end() is issued on the inbound response at most once.
C1_EndAtMostOnce == Cardinality(Ops(res, "end")) <= 1

\* C2: once the error-state flag is set, no step of the cycle writes a body chunk
\* to the inbound response or writes to (or ends) the outbound connection.
C2_NoWriteAfterErrState ==
  [][errState =>
       /\ \A i \in Ops(res', "write") : i <= Len(res)
       /\ reverseProxy'.log = reverseProxy.log]_vars

\* C5: after a route miss the inbound response has received exactly a 404 status
\* line and one end(), no body write, and no outbound connection was opened.
C5_RouteMiss ==
  RouteMissed =>
    /\ res = <<[op |-> "writeHead", statusCode |-> 404, headers |-> Undefined],
               [op |-> "end"]>>
    /\ ~reverseProxy.opened
    /\ ~forwardProxy.opened
    /\ req.listeners \in {<<>>, <<"buffer">>}

C5_Witness == RouteMissed /\ wire.reqEnded /\ wire.reqChunks > 0

\* C7: no body chunk is ever written to the inbound response of a HEAD request,
\* on the success path or on the error path.
C7_HeadNoBody == req.method = "HEAD" => Ops(res, "write") = {}

C7_Witness ==
  /\ req.method = "HEAD"
  /\ wire.nData > 0
  /\ reverseProxy.opened /\ reverseProxy.responseListeners
  /\ errState /\ ~self.proxyErrorListeners
  /\ Cardinality(Ops(res, "writeHead")) = 2

\* C8: the status line mirrored from the backend carries the backend's status
\* code and headers unchanged, except that a connection header, when the backend
\* sent one, is the value the inbound request arrived with, or the closing value
\* when it arrived with none; when the backend sent none, none is added.
ExpectedConnection(backend) ==
  IF backend.headers.connection = Undefined THEN Undefined
  ELSE IF wire.connection # Undefined THEN wire.connection ELSE "close"

C8_ConnectionMirrored ==
  \A i \in Ops(res, "writeHead") :
    res[i].statusCode \in StatusCodes =>
      /\ wire.response # <<>>
      /\ res[i].statusCode = wire.response[1].statusCode
      /\ res[i].headers =
           [wire.response[1].headers EXCEPT
              !.connection = ExpectedConnection(wire.response[1])]

\* C10 as claimed: with a shadow target configured, every proxyRequest call
\* starts the shadow forward, a route miss included.
C10_ForwardAlwaysStarted ==
  (call # <<>> /\ self.forward) => forwardProxy.opened

\* C10 as amended: with a shadow target configured, every proxyRequest call that
\* is not a route miss starts the shadow forward, whatever the primary outcome;
\* a route miss starts none.
C10_ForwardUnlessRouteMiss ==
  (call # <<>> /\ self.forward) =>
    IF RouteMissed
    THEN ~forwardProxy.opened
    ELSE forwardProxy.opened /\ "_forwardRequest" \in {req.listeners[i] : i \in 1..Len(req.listeners)}

C10_Witness ==
  /\ self.forward /\ forwardProxy.opened
  /\ errState
  /\ wire.response # <<>>

\* C3: the first resume() re-emits on the source exactly the events the source
\* emitted between buffer(source) and that resume(), in order, each once with
\* its payload and encoding, and the replay itself is not captured again.
CapturedWindow == SubSeq(Emitted, wire.bufferedAt + 1, Len(Emitted))

C3_RoundTrip ==
  [][(buffer.created /\ Len(replayed) = 0 /\ Len(replayed') > 0) =>
       /\ replayed'[1] = CapturedWindow
       /\ buffer'.events = buffer.events
       /\ \A i \in 1..Len(req'.listeners) : req'.listeners[i] # "buffer"]_vars

C3_Witness ==
  /\ Len(replayed) = 1
  /\ Len(replayed[1]) = 3
  /\ replayed[1][1] = <<"data", "r1", "utf8">>
  /\ replayed[1][3][1] = "end"

\* C4: after the first resume() the buffer is inert: a later resume() re-emits
\* no event on the source.
C4_ResumeAtMostOnce == \A i \in 2..Len(replayed) : replayed[i] = <<>>

\* C6: the first error of the outbound connection of a running cycle sets the
\* error-state flag and emits one proxyError notification carrying (error,
\* request, response); if a consumer claims it nothing is issued on the inbound
\* response, otherwise status 500, then (unless the method is HEAD) one body
\* chunk, the generic message in production and the error detail otherwise,
\* then end().
Completed == wire.ended /\ reverseProxy.responseListeners /\ wire.nErr = 0

ErrorResponse(err) ==
  IF self.proxyErrorListeners THEN <<>>
  ELSE <<[op |-> "writeHead", statusCode |-> 500,
          headers |-> [ContentType |-> "text/plain"]]>>
       \o (IF req.method = "HEAD" THEN <<>>
           ELSE IF NODE_ENV = "production"
                THEN <<[op |-> "write", chunk |-> "Internal Server Error"]>>
                ELSE <<[op |-> "write",
                        chunk |-> "An error has occurred: {\"code\":\""
                                    \o err.code \o "\"}"]>>)
       \o <<[op |-> "end"]>>

C6_ErrorPath ==
  [][(wire.nErr = 0 /\ wire'.nErr = 1 /\ ~Completed) =>
       \E err \in Errors :
         /\ errState'
         /\ notified' = Append(notified, [err |-> err, req |-> "req", res |-> "res"])
         /\ res' = res \o ErrorResponse(err)]_vars

C6_Witness ==
  /\ errState /\ Len(notified) = 1
  /\ ~self.proxyErrorListeners
  /\ NODE_ENV # "production"
  /\ req.method # "HEAD"
  /\ wire.response # <<>>
  /\ \E i \in Ops(res, "write") :
       res[i].chunk = "An error has occurred: {\"code\":\"ECONNRESET\"}"

\* C9: for the same inbound request and the same behaviour of the primary
\* backend, the status codes and body chunks written to the inbound response
\* are the same whether the shadow connection fails or not.
StatusAndBody(log) ==
  [i \in 1..Len(SelectSeq(log, LAMBDA o: o.op # "end")) |->
     LET o == SelectSeq(log, LAMBDA x: x.op # "end")[i]
     IN IF o.op = "writeHead" THEN <<"status", o.statusCode>> ELSE <<"body", o.chunk>>]

C9_ShadowNoninterference ==
  twin # <<>> => StatusAndBody(res) = StatusAndBody(twin[1].res)

\* C11: on a 304 from the backend the engine mirrors status and headers and ends
\* the inbound response in the same step, without waiting for the backend's
\* 'end'; no chunk the backend sends afterwards is written.
BackendChunks == {BackendChunk(n) : n \in 1..(MaxData + 1)}

C11_NotModified ==
  [][(wire'.response # <<>> /\ wire'.response[1].statusCode = 304) =>
       IF wire.response = <<>>
       THEN /\ Len(res') = Len(res) + 2
            /\ res'[Len(res) + 1].op = "writeHead"
            /\ res'[Len(res) + 1].statusCode = 304
            /\ res'[Len(res) + 1].headers.server = wire'.response[1].headers.server
            /\ res'[Len(res) + 2] = [op |-> "end"]
            /\ ~reverseProxy'.responseListeners
       ELSE \A i \in Ops(res', "write") : res'[i].chunk \notin BackendChunks]_vars

C11_Witness ==
  /\ wire.response # <<>> /\ wire.response[1].statusCode = 304
  /\ wire.nData > 0 /\ wire.ended
  /\ req.method = "GET"
  /\ res[Len(res)] = [op |-> "end"]

\* C17: with an explicit (port, host) the table is not asked, the outbound
\* connection goes to the explicit target and the fifth argument is the buffer
\* that is resumed; with no explicit host and a table that has a location, the
\* location is the target and the third argument is the buffer that is resumed.
ResumesFor(b) == IF b = "buffer" THEN 1 ELSE 0

C17_ResolutionOrder ==
  [][(call = <<>> /\ call' # <<>>) =>
       LET a == call'[1]
       IN IF a.host # Undefined
          THEN /\ ~self'.queried
               /\ reverseProxy'.opened
               /\ reverseProxy'.host = a.host /\ reverseProxy'.port = a.port
               /\ Len(replayed') = Len(replayed) + ResumesFor(a.buffer)
          ELSE (self.proxyTable /\ self.location # <<>>) =>
               /\ self'.queried
               /\ reverseProxy'.opened
               /\ reverseProxy'.host = Location.host
               /\ reverseProxy'.port = Location.port
               /\ Len(replayed') = Len(replayed) + ResumesFor(a.port)]_vars

C17_Witness ==
  /\ call # <<>> /\ call[1].host = ExplicitTarget.host /\ call[1].buffer = "buffer"
  /\ self.proxyTable /\ self.location # <<>>
  /\ reverseProxy.opened /\ reverseProxy.host = ExplicitTarget.host
  /\ Len(replayed) = 1 /\ Len(replayed[1]) > 0

\* C18: when a buffer that is still capturing is passed to proxyRequest, the
\* outbound connection receives the captured chunks, then the chunks arriving
\* live, in arrival order and each once, then one end() after the inbound end.
BufferPassed ==
  /\ call # <<>>
  /\ IF call[1].host # Undefined THEN call[1].buffer = "buffer"
     ELSE call[1].port = "buffer"
  /\ wire.resumesAtCall = 0
  /\ reverseProxy.opened

ToOps(events) ==
  [i \in 1..Len(events) |->
     IF events[i][1] = "data" THEN [op |-> "write", chunk |-> events[i][2]]
     ELSE [op |-> "end"]]

C18_BufferedBodyInOrder == BufferPassed => reverseProxy.log = ToOps(CapturedWindow)

\* C19: a status line is written to the inbound response at most once per cycle.
C19_OneStatusLine == Cardinality(Ops(res, "writeHead")) <= 1

\* C20: while an outbound connection of the proxy is open it has an 'error'
\* listener, so no error is thrown as an uncaught exception.
C20_ErrorsAlwaysHandled ==
  /\ ~crashed
  /\ reverseProxy.opened => reverseProxy.errorListener
  /\ forwardProxy.opened => forwardProxy.errorListener

\* C12: a server that createServer built without throwing has something to
\* dispatch to: a handler callback, a static (port, host) target or a table.
C12_FailFast ==
  server.created =>
    \/ server.callback
    \/ Truthy(server.port) /\ Truthy(server.host)
    \/ self.proxyTable

\* C13: once an 'end' of either socket has torn an upgraded relay down, no
\* relay listener is left on either socket, and a later 'data' or 'end' event
\* of either socket makes no further write or end() call.
RelayEvents == <<session.bData, session.cData, session.bEnded, session.cEnded>>

C13_TeardownOnce ==
  [][session'.n = session.n =>
       /\ session'.teardown # <<>> =>
            RelayListeners(socket') = {} /\ RelayListeners(reverse_proxy') = {}
       /\ (session.teardown # <<>> /\ RelayEvents' # RelayEvents) =>
            socket'.log = socket.log /\ reverse_proxy'.log = reverse_proxy.log]_vars

\* C14: the first backend chunk is split at the first double line-terminator;
\* the inbound socket is written the prefix with every occurrence of the
\* backend host replaced by the inbound host, then the rest of the chunk
\* unmodified; chunks after the first are passed on as they are.
RECURSIVE replaceAll(_, _, _)
replaceAll(str, pat, by) ==
  IF IndexOf(str, pat) = 0 THEN str
  ELSE SubSeq(str, 1, IndexOf(str, pat) - 1) \o by
         \o replaceAll(SubSeq(str, IndexOf(str, pat) + Len(pat), Len(str)), pat, by)

Delimited(data) ==
  /\ IndexOf(data, <<CRLFCRLF>>) # 0
  /\ \A i \in 1..(IndexOf(data, <<CRLFCRLF>>) - 1) : data[i] # Junk

Handshaken ==
  /\ session.first # <<>> /\ Delimited(session.first[1])
  /\ Len(socket.log) >= 2
  /\ \A i \in 1..Len(socket.log) : socket.log[i].op = "write" /\ ~socket.log[i].threw

C14_HandshakeRewrite ==
  Handshaken =>
    LET data == session.first[1]
        at == IndexOf(data, <<CRLFCRLF>>)
    IN /\ socket.log[1].chunk =
            replaceAll(SubSeq(data, 1, at - 1), session.remote_host, session.host)
       /\ socket.log[2].chunk = SubSeq(data, at, Len(data))
       /\ \A i \in 3..Len(socket.log) : socket.log[i].chunk \in Frames

\* C15: when the pooled client emits an error while busy, exactly that client
\* leaves the pool's client list and the inbound socket is ended; no errored
\* client is in the list afterwards, so no later acquire hands it out.
Range(seq) == {seq[i] : i \in 1..Len(seq)}

C15_PoolEviction ==
  [][/\ p'.errored # p.errored =>
          /\ session.client \in p.busy /\ session.client \in Range(p.clients)
          /\ Range(p'.clients) = Range(p.clients) \ {session.client}
          /\ Len(p'.clients) = Len(p.clients) - 1
          /\ socket'.log = Append(socket.log, [op |-> "end"])
     /\ Range(p'.clients) \cap p'.errored = {}
     /\ (session'.n # session.n /\ session'.open) => session'.client \notin p.errored]_vars

C15_Witness ==
  /\ p.errored # {} /\ session.n = 2 /\ session.open
  /\ Len(p.clients) = 2 /\ p.clients[1] = 1
  /\ session.client \notin p.errored

\* C16: in steady-state relay a write is made only on a destination that is
\* writable, in both directions.
NewEntries(before, after) == (Len(before) + 1)..Len(after)

C16_WritesGuarded ==
  [][session'.n = session.n =>
       /\ \A i \in NewEntries(reverse_proxy.log, reverse_proxy'.log) :
            reverse_proxy'.log[i].op = "write" => ~reverse_proxy'.log[i].threw
       /\ "data:handshake" \notin reverse_proxy.listeners =>
            \A i \in NewEntries(socket.log, socket'.log) :
              socket'.log[i].op = "write" => ~socket'.log[i].threw]_vars

====
